---- MODULE Spec2Model ----
(***************************************************************************)
(* Personal Cloud Storage backend (backend/main.py): path confinement,     *)
(* the two kinds of bearer token, and HTTP byte-range streaming.           *)
(*                                                                         *)
(* Text is modelled as a sequence of one-character strings, a filesystem   *)
(* path as a sequence of segments (each segment a sequence of characters). *)
(***************************************************************************)
EXTENDS Integers, Sequences, FiniteSets, TLC

VARIABLES
    links,      \* the symbolic links of the filesystem: a set of [at, abs, to]
    dirs,       \* the directories that exist (canonical paths)
    files,      \* the regular files that exist: canonical path -> size in bytes
    user_path,  \* the path string handed to safe_path_join
    joined,     \* its outcome: [status |-> 200, path |-> p] or [status |-> 403]
    now,        \* the server's clock, in seconds
    issued,     \* the tokens create_access_token has signed so far
    req,        \* the request being answered, with the instant it arrived at
    resp,       \* the response to it
    gen,        \* the body generator (iterfile) of a streaming response
    settings,   \* the attributes of config.settings
    content,    \* what uploads wrote: canonical path -> [ino, chunks]
    uploads     \* the upload requests in progress, each at its await point

vars == <<links, dirs, files, user_path, joined, now, issued, req, resp, gen,
          settings, content, uploads>>

(***************************************************************************)
(* Bounds of the model.                                                    *)
(***************************************************************************)
MaxPathLen == 5

(***************************************************************************)
(* Sequences of characters.                                                *)
(***************************************************************************)
Strings(alphabet, n) == UNION {[1..k -> alphabet] : k \in 0..n}

IsPrefix(p, q) == Len(p) <= Len(q) /\ SubSeq(q, 1, Len(p)) = p

RECURSIVE Flatten(_)
Flatten(segs) ==
    IF segs = <<>> THEN <<>> ELSE <<"/">> \o Head(segs) \o Flatten(Tail(segs))

(***************************************************************************)
(* The filesystem: the configured root and the symbolic links.             *)
(***************************************************************************)
Dot == <<".">>
DotDot == <<".", ".">>

\* settings.ROOT_DIRECTORY, as an absolute path: /r/f
ROOT_DIRECTORY == << <<"r">>, <<"f">> >>

LinkAt(fs, p) == CHOOSE l \in fs : l.at = p
IsLink(fs, p) == \E l \in fs : l.at = p

\* Path.resolve() (non-strict): walks the segments from the filesystem root;
\* "." is skipped, ".." steps to the parent of the directory reached so far,
\* a symbolic link is replaced by its target (absolute targets restart at /).
\* The links of a filesystem here never form a loop, so the walk ends.
RECURSIVE Resolve(_, _, _)
Resolve(fs, cur, rest) ==
    IF rest = <<>> THEN cur
    ELSE LET h == Head(rest)
             t == Tail(rest)
         IN  IF h = Dot THEN Resolve(fs, cur, t)
             ELSE IF h = DotDot
             THEN Resolve(fs, IF cur = <<>> THEN <<>> ELSE SubSeq(cur, 1, Len(cur) - 1), t)
             ELSE IF IsLink(fs, Append(cur, h))
             THEN LET l == LinkAt(fs, Append(cur, h))
                  IN  Resolve(fs, IF l.abs THEN <<>> ELSE cur, l.to \o t)
             ELSE Resolve(fs, Append(cur, h), t)

PathResolve(fs, p) == Resolve(fs, <<>>, p)

(***************************************************************************)
(* safe_path_join                                                          *)
(***************************************************************************)
Sep == {"/", "\\"}

\* user_path.lstrip('/\\')
RECURSIVE LStrip(_)
LStrip(s) == IF s # <<>> /\ Head(s) \in Sep THEN LStrip(Tail(s)) ELSE s

\* re.split(r'[\\/]+', s): the fields between maximal runs of separators
RECURSIVE SplitRuns(_, _, _)
SplitRuns(s, cur, inRun) ==
    IF s = <<>> THEN <<cur>>
    ELSE IF Head(s) \in Sep
         THEN IF inRun THEN SplitRuns(Tail(s), cur, TRUE)
              ELSE <<cur>> \o SplitRuns(Tail(s), <<>>, TRUE)
         ELSE SplitRuns(Tail(s), Append(cur, Head(s)), FALSE)

ReSplit(s) == SplitRuns(s, <<>>, FALSE)

\* [p for p in ... if p and p != '.']
RECURSIVE KeepParts(_)
KeepParts(fields) ==
    IF fields = <<>> THEN <<>>
    ELSE IF Head(fields) = <<>> \/ Head(fields) = Dot THEN KeepParts(Tail(fields))
         ELSE <<Head(fields)>> \o KeepParts(Tail(fields))

\* A prefix test on the rendered text, instead of on the components.
TextRelativeTo(p, base) == IsPrefix(Flatten(base), Flatten(p))

\* full_path.relative_to(base): succeeds iff base's components begin full_path's
RelativeTo(p, base) == IsPrefix(base, p)

SafePathJoin(fs, base, up) ==
    LET stripped == LStrip(up)
        full_path == IF stripped = <<>> THEN PathResolve(fs, base)
                     ELSE PathResolve(fs, base \o KeepParts(ReSplit(stripped)))
    IN  IF RelativeTo(full_path, PathResolve(fs, base))
        THEN [status |-> 200, path |-> full_path]
        ELSE [status |-> 403, detail |-> "Access denied"]

(***************************************************************************)
(* Filesystems the service may run on: the link "s" inside the root, the   *)
(* root itself behind a link, and a chain of two links.                    *)
(***************************************************************************)
Seg(c) == <<c>>
InRoot(name) == Append(ROOT_DIRECTORY, name)

LinkConfigs ==
    { {},
      { [at |-> InRoot(Seg("s")), abs |-> TRUE,  to |-> << Seg("r"), Seg("f"), Seg("f") >>] },
      { [at |-> InRoot(Seg("s")), abs |-> TRUE,  to |-> << Seg("r") >>] },
      { [at |-> InRoot(Seg("s")), abs |-> TRUE,  to |-> << Seg("r"), <<"f", "f">> >>] },
      { [at |-> InRoot(Seg("s")), abs |-> TRUE,  to |-> <<>>] },
      { [at |-> InRoot(Seg("s")), abs |-> FALSE, to |-> << DotDot, Seg("e") >>] },
      { [at |-> InRoot(Seg("s")), abs |-> FALSE, to |-> << Seg("f"), DotDot >>] },
      { [at |-> ROOT_DIRECTORY,   abs |-> TRUE,  to |-> << Seg("d") >>],
        [at |-> << Seg("d"), Seg("s") >>, abs |-> TRUE, to |-> ROOT_DIRECTORY] },
      { [at |-> InRoot(Seg("s")), abs |-> FALSE, to |-> << Seg("f") >>],
        [at |-> InRoot(Seg("f")), abs |-> TRUE,  to |-> << Seg("e") >>] } }

PathChars == {"/", "\\", ".", "f", "s"}
UserPaths == Strings(PathChars, MaxPathLen)

Idle == [status |-> 0]

\* Values of the request variables while no request is being answered.
None == [sig |-> "none", authenticated |-> FALSE, stream |-> FALSE,
         path |-> <<"None">>, iat |-> 0, exp |-> 0]
NoRange == <<"None">>
NoRequest == [op |-> "none", at |-> 0, path |-> <<>>, auth |-> None, token |-> None,
              access_token |-> None, range |-> NoRange, name |-> <<>>]
NoHeaders == [none |-> TRUE]
NoResponse == [status |-> 0, detail |-> "", headers |-> NoHeaders]
NoGen == [state |-> "none"]
NoContent == <<>>
NoUploads == <<>>

\* class Settings of config.py: the attributes it defines (those the
\* handlers modelled here read).
Settings == [ROOT_DIRECTORY |-> ROOT_DIRECTORY]

(***************************************************************************)
(* Specification of path confinement: any filesystem, any path string.     *)
(***************************************************************************)
PathInit ==
    /\ links \in LinkConfigs
    /\ user_path \in UserPaths
    /\ joined = Idle
    /\ dirs = {PathResolve(links, ROOT_DIRECTORY)}
    /\ files = <<>>
    /\ now = 0
    /\ issued = {}
    /\ req = NoRequest
    /\ resp = NoResponse
    /\ gen = NoGen
    /\ settings = Settings
    /\ content = NoContent
    /\ uploads = NoUploads

SafePathJoinCall ==
    /\ joined = Idle
    /\ joined' = SafePathJoin(links, ROOT_DIRECTORY, user_path)
    /\ UNCHANGED <<links, dirs, files, user_path, now, issued, req, resp, gen, settings, content, uploads>>

PathNext == SafePathJoinCall

PathSpec == PathInit /\ [][PathNext]_vars

(***************************************************************************)
(* C1: safe_path_join returns only canonical paths that are the canonical  *)
(* root or below it, and otherwise answers 403 Access denied; it never     *)
(* returns a path outside the root.                                        *)
(***************************************************************************)
CanonRoot == PathResolve(links, ROOT_DIRECTORY)

\* No ".", no "..", and no symbolic link on the way: the path names itself.
IsCanonical(fs, p) ==
    \A i \in 1..Len(p) :
        /\ p[i] \notin {Dot, DotDot, <<>>}
        /\ ~IsLink(fs, SubSeq(p, 1, i))
        /\ \A j \in 1..Len(p[i]) : p[i][j] \notin Sep

IsWithinRoot(p) ==
    /\ Len(p) >= Len(CanonRoot)
    /\ \A i \in 1..Len(CanonRoot) : p[i] = CanonRoot[i]

C1_Confined ==
    /\ joined.status \in {0, 200, 403}
    /\ joined.status = 200 =>
          IsCanonical(links, joined.path) /\ IsWithinRoot(joined.path)
    /\ joined.status = 403 => joined.detail = "Access denied"

\* A symbolic link into the root, a backslash and a "..": back at the root.
C1_Witness ==
    /\ joined.status = 200
    /\ user_path = <<"s", "\\", ".", ".">>
    /\ IsLink(links, InRoot(Seg("s")))
    /\ joined.path = CanonRoot

(***************************************************************************)
(* Tokens (auth.py).  A token is the signed claims: the signature's state, *)
(* the claims of the payload, and the issue and expiry instants.           *)
(***************************************************************************)
JWT_EXPIRATION_HOURS == 24
StreamTokenSeconds == 60

NoPathClaim == <<"None">>

\* create_access_token(data, expires_delta): signs data with the expiry
\* now + expires_delta (JWT_EXPIRATION_HOURS by default).
CreateAccessToken(authenticated, stream, path, ttl, t) ==
    [sig |-> "ok", authenticated |-> authenticated, stream |-> stream,
     path |-> path, iat |-> t, exp |-> t + ttl]

SessionTtl == JWT_EXPIRATION_HOURS * 3600

\* verify_token(token): the payload when the signature is good and the
\* token has not expired, None otherwise.
VerifyToken(tok, t) == IF tok.sig = "ok" /\ t < tok.exp THEN tok ELSE None

Response(status, detail) == [status |-> status, detail |-> detail, headers |-> NoHeaders]
Ok == Response(200, "")

\* verify_jwt_token without its check of the decoded payload.
VerifyJwtTokenUnchecked(r, t) ==
    LET fromHeader == r.auth
        token == IF fromHeader # None THEN fromHeader
                 ELSE IF r.token # None THEN r.token ELSE r.access_token
    IN  IF token = None THEN Response(401, "Missing authentication token")
        ELSE Ok

\* verify_jwt_token taking the query parameters before the header.
VerifyJwtTokenQueryFirst(r, t) ==
    LET fromQuery == IF r.token # None THEN r.token ELSE r.access_token
        token == IF fromQuery # None THEN fromQuery ELSE r.auth
    IN  IF token = None THEN Response(401, "Missing authentication token")
        ELSE IF VerifyToken(token, t) = None
             THEN Response(401, "Invalid or expired token")
             ELSE Ok

\* verify_jwt_token(request): the bearer header's token, else the query
\* parameter token, else access_token; 401 when none or when it does not
\* verify.  The payload's claims are not looked at.
VerifyJwtToken(r, t) ==
    LET fromHeader == r.auth
        token == IF fromHeader # None THEN fromHeader
                 ELSE IF r.token # None THEN r.token ELSE r.access_token
    IN  IF token = None THEN Response(401, "Missing authentication token")
        ELSE IF VerifyToken(token, t) = None
             THEN Response(401, "Invalid or expired token")
             ELSE Ok

\* The access check of stream_audio and stream_video: the query parameter
\* token when given (a stream token must name the requested path), else
\* verify_jwt_token on the request.
StreamAccess(r, t) ==
    IF r.token # None
    THEN LET payload_token == VerifyToken(r.token, t)
         IN  IF payload_token = None
             THEN Response(401, "Invalid or expired token")
             ELSE IF payload_token.stream /\ payload_token.path # r.path
                  THEN Response(403, "Token not valid for this path")
                  ELSE Ok
    ELSE VerifyJwtToken(r, t)

(***************************************************************************)
(* The filesystem as the handlers see it.                                  *)
(***************************************************************************)
Exists(p) == p \in dirs \/ p \in DOMAIN files
IsDir(p) == p \in dirs
IsFile(p) == p \in DOMAIN files
Parent(p) == SubSeq(p, 1, Len(p) - 1)
Children(d) == {p \in dirs \cup DOMAIN files : Len(p) = Len(d) + 1 /\ Parent(p) = d}

\* stat().st_size of a directory (one block on the usual filesystems)
DirStatSize == 4096
StatSize(p) == IF IsFile(p) THEN files[p] ELSE DirStatSize

(***************************************************************************)
(* Range planning of stream_audio and stream_video.                        *)
(***************************************************************************)
Digits == {"0", "1", "2", "3", "4", "5", "6", "7", "8", "9"}
DigitValue(c) ==
    CASE c = "0" -> 0 [] c = "1" -> 1 [] c = "2" -> 2 [] c = "3" -> 3 [] c = "4" -> 4
      [] c = "5" -> 5 [] c = "6" -> 6 [] c = "7" -> 7 [] c = "8" -> 8 [] c = "9" -> 9

\* range.replace('bytes=', '')
RECURSIVE RemoveUnit(_)
RemoveUnit(s) ==
    IF s = <<>> THEN <<>>
    ELSE IF Head(s) = "bytes=" THEN RemoveUnit(Tail(s))
         ELSE <<Head(s)>> \o RemoveUnit(Tail(s))

\* str.split('-'): the fields between the dashes, empty ones kept
RECURSIVE SplitDash(_, _)
SplitDash(s, cur) ==
    IF s = <<>> THEN <<cur>>
    ELSE IF Head(s) = "-" THEN <<cur>> \o SplitDash(Tail(s), <<>>)
         ELSE SplitDash(Tail(s), Append(cur, Head(s)))

\* int(text) succeeds on decimal digits
IsInt(field) == field # <<>> /\ \A i \in 1..Len(field) : field[i] \in Digits

RECURSIVE IntOf(_, _)
IntOf(field, acc) ==
    IF field = <<>> THEN acc ELSE IntOf(Tail(field), 10 * acc + DigitValue(Head(field)))

HasRange(range) == range # NoRange /\ range # <<>>

\* A planner whose default end is the file size, one past the last byte.
PlanRangeEndIsSize(range, file_size) ==
    IF ~HasRange(range) THEN [ok |-> TRUE, start |-> 0, end |-> file_size]
    ELSE LET range_match == SplitDash(RemoveUnit(range), <<>>)
             first == range_match[1]
             second == IF Len(range_match) > 1 THEN range_match[2] ELSE <<>>
         IN  IF (first # <<>> /\ ~IsInt(first)) \/ (second # <<>> /\ ~IsInt(second))
             THEN [ok |-> FALSE, start |-> 0, end |-> file_size]
             ELSE [ok |-> TRUE,
                   start |-> IF first # <<>> THEN IntOf(first, 0) ELSE 0,
                   end |-> IF second # <<>> THEN IntOf(second, 0) ELSE file_size]

\* A planner that takes an absent end for 0 instead of the last byte.
PlanRangeEndZero(range, file_size) ==
    IF ~HasRange(range) THEN [ok |-> TRUE, start |-> 0, end |-> file_size - 1]
    ELSE LET range_match == SplitDash(RemoveUnit(range), <<>>)
             first == range_match[1]
             second == IF Len(range_match) > 1 THEN range_match[2] ELSE <<>>
         IN  IF (first # <<>> /\ ~IsInt(first)) \/ (second # <<>> /\ ~IsInt(second))
             THEN [ok |-> FALSE, start |-> 0, end |-> file_size - 1]
             ELSE [ok |-> TRUE,
                   start |-> IF first # <<>> THEN IntOf(first, 0) ELSE 0,
                   end |-> IF second # <<>> THEN IntOf(second, 0) ELSE 0]

\* start and end as the handlers compute them; ok is FALSE when int() raises
PlanRange(range, file_size) ==
    IF ~HasRange(range) THEN [ok |-> TRUE, start |-> 0, end |-> file_size - 1]
    ELSE LET range_match == SplitDash(RemoveUnit(range), <<>>)
             first == range_match[1]
             second == IF Len(range_match) > 1 THEN range_match[2] ELSE <<>>
         IN  IF (first # <<>> /\ ~IsInt(first)) \/ (second # <<>> /\ ~IsInt(second))
             THEN [ok |-> FALSE, start |-> 0, end |-> file_size - 1]
             ELSE [ok |-> TRUE,
                   start |-> IF first # <<>> THEN IntOf(first, 0) ELSE 0,
                   end |-> IF second # <<>> THEN IntOf(second, 0) ELSE file_size - 1]

AudioChunk == 64 * 1024
VideoChunk == 256 * 1024
ChunkSize(op) == IF op = "stream_audio" THEN AudioChunk ELSE VideoChunk

(***************************************************************************)
(* The handlers.  Each yields the response and the state it leaves.        *)
(***************************************************************************)
Outcome(r, d, f, i) == [resp |-> r, dirs |-> d, files |-> f, issued |-> i]
Unchanged(r) == Outcome(r, dirs, files, issued)

\* stream_audio / stream_video
StreamFile(r, t) ==
    LET access == StreamAccess(r, t)
        file_path == SafePathJoin(links, ROOT_DIRECTORY, r.path)
    IN  IF access.status # 200 THEN Unchanged(access)
        ELSE IF file_path.status # 200 THEN Unchanged(Response(403, file_path.detail))
        ELSE IF ~Exists(file_path.path) THEN Unchanged(Response(404, "File not found"))
        ELSE LET file_size == StatSize(file_path.path)
                 plan == PlanRange(r.range, file_size)
             IN  IF ~plan.ok THEN Unchanged(Response(500, "Error streaming"))
                 ELSE Unchanged(
                        [status |-> IF HasRange(r.range) THEN 206 ELSE 200,
                         detail |-> "",
                         headers |-> [content_range |-> <<plan.start, plan.end, file_size>>,
                                      accept_ranges |-> "bytes",
                                      content_length |-> plan.end - plan.start + 1,
                                      file |-> file_path.path]])

\* create_stream_token
CreateStreamToken(r, t) ==
    LET access == VerifyJwtToken(r, t)
        token == CreateAccessToken(FALSE, TRUE, r.path, StreamTokenSeconds, t)
    IN  IF access.status # 200 THEN Unchanged(access)
        ELSE Outcome([status |-> 200, detail |-> "",
                      headers |-> [token |-> token, expires_in |-> StreamTokenSeconds]],
                     dirs, files, issued \cup {token})

\* list_files
ListFiles(r, t) ==
    LET access == VerifyJwtToken(r, t)
        directory == SafePathJoin(links, ROOT_DIRECTORY, r.path)
    IN  IF access.status # 200 THEN Unchanged(access)
        ELSE IF directory.status # 200 THEN Unchanged(Response(403, directory.detail))
        ELSE IF ~Exists(directory.path) THEN Unchanged(Response(404, "Directory not found"))
        ELSE IF ~IsDir(directory.path) THEN Unchanged(Response(400, "Path is not a directory"))
        ELSE IF Children(directory.path) # {} /\ ~RelativeTo(directory.path, ROOT_DIRECTORY)
             THEN Unchanged(Response(500, "Error listing directory"))
        ELSE Unchanged([status |-> 200, detail |-> "",
                        headers |-> [total |-> Cardinality(Children(directory.path))]])

\* download_file that confines the path before it verifies the token.
DownloadFileConfineFirst(r, t) ==
    LET access == VerifyJwtToken(r, t)
        file_path == SafePathJoin(links, ROOT_DIRECTORY, r.path)
    IN  IF file_path.status # 200 THEN Unchanged(Response(403, file_path.detail))
        ELSE IF access.status # 200 THEN Unchanged(access)
        ELSE IF ~Exists(file_path.path) THEN Unchanged(Response(404, "File not found"))
        ELSE IF ~IsFile(file_path.path) THEN Unchanged(Response(400, "Path is not a file"))
        ELSE Unchanged([status |-> 200, detail |-> "",
                        headers |-> [file |-> file_path.path,
                                     media_type |-> "application/octet-stream"]])

\* download_file
DownloadFile(r, t) ==
    LET access == VerifyJwtToken(r, t)
        file_path == SafePathJoin(links, ROOT_DIRECTORY, r.path)
    IN  IF access.status # 200 THEN Unchanged(access)
        ELSE IF file_path.status # 200 THEN Unchanged(Response(403, file_path.detail))
        ELSE IF ~Exists(file_path.path) THEN Unchanged(Response(404, "File not found"))
        ELSE IF ~IsFile(file_path.path) THEN Unchanged(Response(400, "Path is not a file"))
        ELSE Unchanged([status |-> 200, detail |-> "",
                        headers |-> [file |-> file_path.path,
                                     media_type |-> "application/octet-stream"]])

\* text.strip('/\\')
RECURSIVE RStrip(_)
RStrip(s) == IF s # <<>> /\ s[Len(s)] \in Sep THEN RStrip(SubSeq(s, 1, Len(s) - 1)) ELSE s
Strip(s) == RStrip(LStrip(s))

Contains(s, c) == \E i \in 1..Len(s) : s[i] = c

\* os.path.basename(name): what follows the last "/"
RECURSIVE Basename(_)
Basename(s) ==
    IF Contains(s, "/") THEN Basename(Tail(s)) ELSE s

\* create_folder with a name check that forgets the backslash.
CreateFolderSlashOnly(r, t) ==
    LET access == VerifyJwtToken(r, t)
        dest_path == SafePathJoin(links, ROOT_DIRECTORY, Strip(r.path))
        new_dir == PathResolve(links, Append(dest_path.path, r.name))
    IN  IF access.status # 200 THEN Unchanged(access)
        ELSE IF r.name = <<>> \/ Contains(r.name, "/")
                \/ r.name \in {Dot, DotDot}
             THEN Unchanged(Response(400, "Invalid folder name"))
        ELSE IF dest_path.status # 200 THEN Unchanged(Response(403, dest_path.detail))
        ELSE IF ~RelativeTo(new_dir, PathResolve(links, ROOT_DIRECTORY))
             THEN Unchanged(Response(403, "Invalid folder path"))
        ELSE IF Exists(new_dir) THEN Unchanged(Response(409, "Folder already exists"))
        ELSE IF ~IsDir(Parent(new_dir))
             THEN Unchanged(Response(500, "Failed to create folder"))
        ELSE IF ~RelativeTo(new_dir, ROOT_DIRECTORY)
             THEN Outcome(Response(500, "Failed to create folder"),
                          dirs \cup {new_dir}, files, issued)
        ELSE Outcome([status |-> 200, detail |-> "created", headers |-> [path |-> new_dir]],
                     dirs \cup {new_dir}, files, issued)

\* create_folder
CreateFolder(r, t) ==
    LET access == VerifyJwtToken(r, t)
        dest_path == SafePathJoin(links, ROOT_DIRECTORY, Strip(r.path))
        new_dir == PathResolve(links, Append(dest_path.path, r.name))
    IN  IF access.status # 200 THEN Unchanged(access)
        ELSE IF r.name = <<>> \/ Contains(r.name, "/") \/ Contains(r.name, "\\")
                \/ r.name \in {Dot, DotDot}
             THEN Unchanged(Response(400, "Invalid folder name"))
        ELSE IF dest_path.status # 200 THEN Unchanged(Response(403, dest_path.detail))
        ELSE IF ~RelativeTo(new_dir, PathResolve(links, ROOT_DIRECTORY))
             THEN Unchanged(Response(403, "Invalid folder path"))
        ELSE IF Exists(new_dir) THEN Unchanged(Response(409, "Folder already exists"))
        ELSE IF ~IsDir(Parent(new_dir))
             THEN Unchanged(Response(500, "Failed to create folder"))
        ELSE IF ~RelativeTo(new_dir, ROOT_DIRECTORY)
             THEN Outcome(Response(500, "Failed to create folder"),
                          dirs \cup {new_dir}, files, issued)
        ELSE Outcome([status |-> 200, detail |-> "created", headers |-> [path |-> new_dir]],
                     dirs \cup {new_dir}, files, issued)

\* upload_file up to the existence check: the token, the confined parent,
\* the base name of the client's filename, the confined destination.
UploadDest(r) ==
    PathResolve(links, Append(SafePathJoin(links, ROOT_DIRECTORY, Strip(r.path)).path,
                              Basename(r.name)))

\* upload_file's checks without the one that the destination is free.
UploadChecksNoExists(r, t) ==
    LET access == VerifyJwtToken(r, t)
        parent == SafePathJoin(links, ROOT_DIRECTORY, Strip(r.path))
        filename == Basename(r.name)
    IN  IF access.status # 200 THEN access
        ELSE IF parent.status # 200 THEN Response(403, parent.detail)
        ELSE IF filename = <<>> THEN Response(400, "Missing filename")
        ELSE IF filename \in {Dot, DotDot} THEN Response(400, "Invalid filename")
        ELSE IF ~RelativeTo(UploadDest(r), PathResolve(links, ROOT_DIRECTORY))
             THEN Response(403, "Invalid upload path")
        ELSE Ok

UploadChecks(r, t) ==
    LET access == VerifyJwtToken(r, t)
        parent == SafePathJoin(links, ROOT_DIRECTORY, Strip(r.path))
        filename == Basename(r.name)
    IN  IF access.status # 200 THEN access
        ELSE IF parent.status # 200 THEN Response(403, parent.detail)
        ELSE IF filename = <<>> THEN Response(400, "Missing filename")
        ELSE IF filename \in {Dot, DotDot} THEN Response(400, "Invalid filename")
        ELSE IF ~RelativeTo(UploadDest(r), PathResolve(links, ROOT_DIRECTORY))
             THEN Response(403, "Invalid upload path")
        ELSE IF Exists(UploadDest(r)) THEN Response(409, "File already exists")
        ELSE Ok

\* max_bytes = settings.UPLOAD_MAX_BYTES raises AttributeError when the
\* settings object has no such attribute, as with class Settings of config.py.
HasUploadMax == "UPLOAD_MAX_BYTES" \in DOMAIN settings

\* upload_file with the settings of config.py: the checks, and after them
\* the failed attribute lookup, answered 500 before the destination is opened.
UploadFile(r, t) ==
    LET checks == UploadChecks(r, t)
    IN  IF checks.status # 200 THEN Unchanged(checks)
        ELSE Unchanged(Response(500, "File upload failed"))

Handle(r, t) ==
    CASE r.op = "list" -> ListFiles(r, t)
      [] r.op = "download" -> DownloadFile(r, t)
      [] r.op = "create_folder" -> CreateFolder(r, t)
      [] r.op = "upload" -> UploadFile(r, t)
      [] r.op = "stream_token" -> CreateStreamToken(r, t)
      [] r.op \in {"stream_audio", "stream_video"} -> StreamFile(r, t)

(***************************************************************************)
(* Specification of the protected operations: logins, the clock, and       *)
(* requests that present issued, forged and malformed tokens in up to two  *)
(* of the bearer header and the token and access_token query parameters.   *)
(***************************************************************************)
MaxTokens == 2

FileF == InRoot(Seg("f"))
FileS == InRoot(Seg("s"))
AuthPaths == { <<>>, <<"f">>, <<"/", "f">>, <<"s">> }
Ops == {"list", "download", "create_folder", "upload", "stream_token",
        "stream_audio", "stream_video"}

Forged == [sig |-> "bad", authenticated |-> TRUE, stream |-> FALSE,
           path |-> NoPathClaim, iat |-> 0, exp |-> 1000 * SessionTtl]
Malformed == [sig |-> "malformed", authenticated |-> FALSE, stream |-> FALSE,
              path |-> NoPathClaim, iat |-> 0, exp |-> 0]
Presentable == issued \cup {Forged, Malformed, None}

\* The instants around the expiry of the tokens issued so far.
Instants == {tok.exp + d : tok \in issued, d \in {-1, 0, 1}}

\* A behaviour goes on after a login or a mint that presented its token in
\* the bearer header alone; any other response ends it.
Ready ==
    \/ resp.status = 0
    \/ /\ req.op \in {"login", "stream_token"}
       /\ resp.status = 200
       /\ req.token = None
       /\ req.access_token = None

AuthInit ==
    /\ links = {}
    /\ dirs = {ROOT_DIRECTORY}
    /\ files = (FileF :> 3) @@ (FileS :> 2)
    /\ user_path = <<>>
    /\ joined = Idle
    /\ now = 0
    /\ issued = {}
    /\ req = NoRequest
    /\ resp = NoResponse
    /\ gen = NoGen
    /\ settings = Settings
    /\ content = NoContent
    /\ uploads = NoUploads

\* login: a session token for the right password, 401 for a wrong one
\* (the single user logs in once in a behaviour)
Login ==
    /\ Ready
    /\ \A tok \in issued : ~tok.authenticated
    /\ \E password_ok \in BOOLEAN :
        LET token == CreateAccessToken(TRUE, FALSE, NoPathClaim, SessionTtl, now)
        IN  /\ req' = [NoRequest EXCEPT !.op = "login", !.at = now]
            /\ IF password_ok
               THEN /\ issued' = issued \cup {token}
                    /\ resp' = [status |-> 200, detail |-> "Login successful",
                                headers |-> [token |-> token]]
               ELSE /\ issued' = issued
                    /\ resp' = Response(401, "Invalid password")
    /\ UNCHANGED <<links, dirs, files, user_path, joined, now, gen, settings, content, uploads>>

Tick ==
    /\ Ready
    /\ \E t \in Instants : t > now /\ now' = t
    /\ UNCHANGED <<links, dirs, files, user_path, joined, issued, req, resp, gen, settings, content, uploads>>

Request ==
    /\ Ready
    /\ \E op \in Ops, path \in AuthPaths, auth \in Presentable,
          token \in Presentable, access_token \in Presentable :
        LET r == [op |-> op, at |-> now, path |-> path, auth |-> auth, token |-> token,
                  access_token |-> access_token, range |-> NoRange, name |-> <<"n">>]
            out == Handle(r, r.at)
        IN  /\ None \in {auth, token, access_token}
            /\ op = "stream_token" => Cardinality(issued) < MaxTokens
            /\ req' = r
            /\ resp' = out.resp
            /\ dirs' = out.dirs
            /\ files' = out.files
            /\ issued' = out.issued
    /\ UNCHANGED <<links, user_path, joined, now, gen, settings, content, uploads>>

AuthNext == Login \/ Tick \/ Request

AuthSpec == AuthInit /\ [][AuthNext]_vars

(***************************************************************************)
(* What a response says about authorization.                               *)
(***************************************************************************)
StreamOps == {"stream_audio", "stream_video"}
JwtOps == Ops \ StreamOps

Credentials(r) == {r.auth, r.token, r.access_token} \ {None}

\* The lifetime a token of its kind is issued with.
Ttl(tok) == IF tok.stream THEN StreamTokenSeconds ELSE JWT_EXPIRATION_HOURS * 3600

\* Signed by this server and not yet expired when the request arrived.
Valid(tok) == tok \in issued /\ req.at < tok.iat + Ttl(tok)
ValidSession(tok) == Valid(tok) /\ tok.authenticated /\ ~tok.stream
ValidStream(tok) == Valid(tok) /\ tok.stream

Answered == req.op \in Ops /\ resp.status # 0
Unauthorized == resp.status = 401
Forbidden == resp.status = 403 /\ resp.detail = "Token not valid for this path"
Granted == Answered /\ ~Unauthorized /\ ~Forbidden

(***************************************************************************)
(* C2: a stream token is accepted only by the audio/video stream of the    *)
(* path it names: list, download, create-folder, upload and the mint of    *)
(* stream tokens reject a request whose only credential is a stream token. *)
(* The code does not do this: verify_jwt_token never looks at the claims.  *)
(***************************************************************************)
C2_StreamTokenOnlyStreams ==
    \A tok \in Credentials(req) :
        (Answered /\ Credentials(req) = {tok} /\ ValidStream(tok) /\ Granted)
            => (req.op \in StreamOps /\ req.path = tok.path)

(***************************************************************************)
(* C3: on the stream endpoints a valid stream token for P1 is granted for  *)
(* the path P1 and answered 403 Forbidden for any other path.  The code    *)
(* does so only for a token in the query parameter token.                  *)
(***************************************************************************)
C3_StreamTokenPathExact ==
    \A tok \in Credentials(req) :
        (req.op \in StreamOps /\ Credentials(req) = {tok} /\ ValidStream(tok))
            => /\ req.path = tok.path => Granted
               /\ req.path # tok.path => Forbidden

(***************************************************************************)
(* C4: a stream request is granted exactly when it presents a valid        *)
(* session token or a valid stream token for the requested path (with the  *)
(* session check as the fallback for a query token that is not one).  The  *)
(* code fails fast on the query token and never looks at a header token's  *)
(* claims.                                                                 *)
(***************************************************************************)
C4_GrantedIffSessionOrMatchingStream ==
    req.op \in StreamOps =>
        (Granted <=> \E tok \in Credentials(req) :
                        \/ ValidSession(tok)
                        \/ ValidStream(tok) /\ tok.path = req.path)

(***************************************************************************)
(* C5, as claimed: on every protected operation the bearer header's token  *)
(* decides whenever the header is present.                                 *)
(***************************************************************************)
C5_HeaderDecidesEverywhere ==
    (Answered /\ req.auth # None) => (Granted <=> Valid(req.auth))

(***************************************************************************)
(* C5, amended: on list, download, create-folder, upload and the mint the  *)
(* bearer header's token decides when present, else the query parameter    *)
(* token, else access_token; on the stream endpoints the query parameter   *)
(* token decides when present (a stream token must name the path), and the *)
(* header, then access_token, only when it is absent.                      *)
(***************************************************************************)
First(a, b, c) == IF a # None THEN a ELSE IF b # None THEN b ELSE c

C5_Precedence ==
    /\ req.op \in JwtOps =>
          (Granted <=> Valid(First(req.auth, req.token, req.access_token)))
    /\ (req.op \in StreamOps /\ req.token # None) =>
          (Granted <=> (Valid(req.token)
                        /\ (req.token.stream => req.token.path = req.path)))
    /\ (req.op \in StreamOps /\ req.token = None) =>
          (Granted <=> Valid(First(req.auth, req.access_token, None)))

\* A listing whose header holds the session token and whose query holds a forgery.
C5_Witness ==
    /\ req.op = "list"
    /\ ValidSession(req.auth)
    /\ req.token = Forged
    /\ resp.status = 200

(***************************************************************************)
(* C6: a token issued at t for T seconds (60 for a stream token, the       *)
(* configured hours for a session token) verifies at every instant before  *)
(* t+T and is answered 401 at every instant after it; a token with a bad   *)
(* signature or a malformed one is answered 401 at all times; a request    *)
(* whose tokens are all invalid is never granted.                          *)
(***************************************************************************)
C6_Expiry ==
    /\ \A tok \in Credentials(req) :
          (Answered /\ Credentials(req) = {tok}) =>
              /\ (tok \in issued /\ req.at < tok.iat + Ttl(tok)) => ~Unauthorized
              /\ (tok \in issued /\ req.at > tok.iat + Ttl(tok)) => Unauthorized
              /\ tok.sig # "ok" => Unauthorized
    /\ (Answered /\ \A tok \in Credentials(req) : ~Valid(tok)) => ~Granted

\* A stream token presented in its last valid second.
C6_Witness ==
    /\ req.op = "stream_audio"
    /\ req.token.stream
    /\ req.token \in issued
    /\ Credentials(req) = {req.token}
    /\ req.at = req.token.iat + StreamTokenSeconds - 1
    /\ resp.status = 200

(***************************************************************************)
(* The body generator iterfile() of a streaming response.  A chunk is      *)
(* recorded by the offset it was read at and its length: the bytes are     *)
(* those of the file at that place.                                        *)
(***************************************************************************)
Min(a, b) == IF a < b THEN a ELSE b
Max(a, b) == IF a > b THEN a ELSE b

Streaming == req.op \in StreamOps /\ resp.status \in {200, 206}

\* with open(file_path, 'rb') as f: f.seek(start); remaining = end - start + 1
GenOpen ==
    /\ Streaming
    /\ gen = NoGen
    /\ gen' = IF IsFile(resp.headers.file)
              THEN [state |-> "reading",
                    pos |-> resp.headers.content_range[1],
                    remaining |-> resp.headers.content_range[2]
                                  - resp.headers.content_range[1] + 1,
                    chunk_size |-> ChunkSize(req.op),
                    chunks |-> <<>>]
              ELSE [state |-> "error"]
    /\ UNCHANGED <<links, dirs, files, user_path, joined, now, issued, req, resp, settings, content, uploads>>

\* f.read(n) at pos: what is left of the file there, n bytes at most
ReadLen(file, pos, n) == Max(0, Min(n, files[file] - pos))

\* One turn of the loop: while remaining > 0, read min(chunk_size, remaining)
\* bytes, stop on an empty read, else yield them.
GenRead ==
    /\ gen # NoGen
    /\ gen.state = "reading"
    /\ IF gen.remaining > 0
       THEN LET chunk_size == Min(gen.chunk_size, gen.remaining)
                n == ReadLen(resp.headers.file, gen.pos, chunk_size)
            IN  IF n = 0
                THEN gen' = [gen EXCEPT !.state = "done", !.chunk_size = chunk_size]
                ELSE gen' = [gen EXCEPT !.chunk_size = chunk_size,
                                        !.remaining = @ - n,
                                        !.pos = @ + n,
                                        !.chunks = Append(@, [off |-> gen.pos, len |-> n])]
       ELSE gen' = [gen EXCEPT !.state = "done"]
    /\ UNCHANGED <<links, dirs, files, user_path, joined, now, issued, req, resp, settings, content, uploads>>

(***************************************************************************)
(* Specification of range streaming: a logged-in client asks for the file  *)
(* f, of any size, as audio or video, with any Range header.               *)
(***************************************************************************)
MaxRangeLen == 4
MaxSmallFile == 4
MaxChunks == 2

RangeChars == {"0", "2", "-", "x"}
ExampleRange == <<"bytes=", "1", "0", "0", "-", "1", "9", "9">>
RangeHeaders ==
    {NoRange, ExampleRange}
    \cup Strings(RangeChars, MaxRangeLen)
    \cup {<<"bytes=">> \o body : body \in Strings(RangeChars, MaxRangeLen)}
FileSizes ==
    (0..MaxSmallFile) \cup {1000}
    \cup {k * c + d : k \in 1..MaxChunks, c \in {AudioChunk, VideoChunk}, d \in {-1, 0, 1}}

SessionAtZero == CreateAccessToken(TRUE, FALSE, NoPathClaim, SessionTtl, 0)

RangeInit ==
    /\ links = {}
    /\ dirs = {ROOT_DIRECTORY}
    /\ \E size \in FileSizes : files = (FileF :> size)
    /\ user_path = <<>>
    /\ joined = Idle
    /\ now = 0
    /\ issued = {SessionAtZero}
    /\ \E op \in StreamOps, range \in RangeHeaders :
          req = [op |-> op, at |-> 0, path |-> <<"f">>, auth |-> SessionAtZero,
                 token |-> None, access_token |-> None, range |-> range, name |-> <<>>]
    /\ resp = NoResponse
    /\ gen = NoGen
    /\ settings = Settings
    /\ content = NoContent
    /\ uploads = NoUploads

\* The handler answers the request that arrived.
StreamAnswer ==
    /\ req.op \in StreamOps
    /\ resp = NoResponse
    /\ resp' = Handle(req, req.at).resp
    /\ UNCHANGED <<links, dirs, files, user_path, joined, now, issued, req, gen, settings, content, uploads>>

RangeNext == StreamAnswer \/ GenOpen \/ GenRead

RangeSpec == RangeInit /\ [][RangeNext]_vars

(***************************************************************************)
(* What a streaming response announces.                                    *)
(***************************************************************************)
RangeStart == resp.headers.content_range[1]
RangeEnd == resp.headers.content_range[2]
RangeTotal == resp.headers.content_range[3]
StreamedSize == files[resp.headers.file]

(***************************************************************************)
(* C7: whatever Range header the client sent, the start and end used for   *)
(* the headers and the read loop satisfy 0 <= start <= end < fileSize.     *)
(* The code clamps nothing.                                                *)
(***************************************************************************)
C7_RangeWithinFile ==
    Streaming => (0 <= RangeStart /\ RangeStart <= RangeEnd /\ RangeEnd < StreamedSize)

(***************************************************************************)
(* C8: with no Range header the plan is 0..fileSize-1 with status 200;     *)
(* with bytes=<s>-<e> it is s (0 when absent) .. e (fileSize-1 when        *)
(* absent) with status 206; either way Content-Range is start-end/size,    *)
(* Accept-Ranges is bytes and Content-Length is end-start+1.               *)
(***************************************************************************)
RECURSIVE DecimalValue(_)
DecimalValue(text) ==
    IF text = <<>> THEN 0
    ELSE 10 * DecimalValue(SubSeq(text, 1, Len(text) - 1)) + DigitValue(text[Len(text)])

AllDigits(text) == \A i \in 1..Len(text) : text[i] \in Digits

\* range is bytes=<s>-<e> with the dash at position k
WellFormedAt(range, k) ==
    /\ Len(range) >= 2
    /\ range[1] = "bytes="
    /\ k \in 2..Len(range)
    /\ range[k] = "-"
    /\ AllDigits(SubSeq(range, 2, k - 1))
    /\ AllDigits(SubSeq(range, k + 1, Len(range)))

C8_PlanMatchesReference ==
    (req.op \in StreamOps /\ resp.status # 0) =>
        /\ req.range = NoRange =>
              resp.status = 200 /\ RangeStart = 0 /\ RangeEnd = StreamedSize - 1
        /\ \A k \in 1..Len(req.range) :
              WellFormedAt(req.range, k) =>
                  LET s == SubSeq(req.range, 2, k - 1)
                      e == SubSeq(req.range, k + 1, Len(req.range))
                  IN  /\ resp.status = 206
                      /\ RangeStart = IF s = <<>> THEN 0 ELSE DecimalValue(s)
                      /\ RangeEnd = IF e = <<>> THEN StreamedSize - 1 ELSE DecimalValue(e)
        /\ Streaming =>
              /\ RangeTotal = StreamedSize
              /\ resp.headers.accept_ranges = "bytes"
              /\ resp.headers.content_length = RangeEnd - RangeStart + 1
        /\ (req.range = ExampleRange /\ files[FileF] = 1000) =>
              /\ resp.status = 206
              /\ resp.headers.content_range = <<100, 199, 1000>>
              /\ resp.headers.content_length = 100

\* The example: bytes=100-199 of a file of 1000 bytes.
C8_Witness ==
    /\ req.range = ExampleRange
    /\ resp.status = 206
    /\ StreamedSize = 1000
    /\ resp.headers.content_range = <<100, 199, 1000>>
    /\ resp.headers.content_length = 100

(***************************************************************************)
(* C9: a Range header with a start or end that is no number never fails    *)
(* the request: the bound takes its default and the answer is a 206.  The  *)
(* code lets int() raise, and answers 500.                                 *)
(***************************************************************************)
Fields(range) == SplitDash(RemoveUnit(range), <<>>)
Unparsable(text) == text # <<>> /\ ~AllDigits(text)

C9_UnparsableBoundDefaults ==
    (req.op \in StreamOps /\ resp.status # 0 /\ HasRange(req.range)
     /\ Len(Fields(req.range)) = 2
     /\ (Unparsable(Fields(req.range)[1]) \/ Unparsable(Fields(req.range)[2]))) =>
        /\ resp.status = 206
        /\ Unparsable(Fields(req.range)[1]) => RangeStart = 0
        /\ Unparsable(Fields(req.range)[2]) => RangeEnd = StreamedSize - 1

(***************************************************************************)
(* C10: for Range bytes=0- the chunks the generator emits, concatenated in *)
(* order, are the whole file.                                              *)
(***************************************************************************)
\* The chunks follow one another from offset `from` and end at offset `to`.
RECURSIVE Tiles(_, _, _)
Tiles(chunks, from, to) ==
    IF chunks = <<>> THEN from = to
    ELSE /\ Head(chunks).off = from
         /\ Head(chunks).len > 0
         /\ Tiles(Tail(chunks), from + Head(chunks).len, to)

GenDone == gen # NoGen /\ gen.state = "done"

C10_WholeFileRoundTrip ==
    (req.range = <<"bytes=", "0", "-">> /\ GenDone) =>
        Tiles(gen.chunks, 0, StreamedSize)

\* A video file of two chunks and a byte, sent in three chunks.
C10_Witness ==
    /\ req.range = <<"bytes=", "0", "-">>
    /\ req.op = "stream_video"
    /\ GenDone
    /\ StreamedSize = 2 * VideoChunk + 1
    /\ Len(gen.chunks) = 3

(***************************************************************************)
(* upload_file, step by step.  The handler is a coroutine of the server's  *)
(* single event loop: it runs alone from one `await file.read` to the      *)
(* next, and other requests run only while it waits there.                 *)
(*                                                                         *)
(* A file written by uploads is kept chunk by chunk, each chunk with the   *)
(* upload that wrote it (0: data that was there before); ino is the upload *)
(* that created the file.  A handle writes to the file it opened, also     *)
(* after the name was removed or given to another file.                    *)
(***************************************************************************)
UploadChunk == 64 * 1024
Uploaders == {1, 2}

RECURSIVE Size(_)
Size(chunks) == IF chunks = <<>> THEN 0 ELSE Head(chunks).len + Size(Tail(chunks))

Remove(f, p) == [x \in DOMAIN f \ {p} |-> f[x]]

\* The chunks after a write of c as the k-th chunk of the file (the space
\* before it, when the file is shorter, reads as zeros)
PutChunk(chunks, k, c) ==
    [i \in 1..Max(Len(chunks), k) |->
        IF i = k THEN c
        ELSE IF i <= Len(chunks) THEN chunks[i]
        ELSE [by |-> 0, len |-> UploadChunk]]

Finished(u, response) ==
    uploads' = [uploads EXCEPT ![u].pc = "done", ![u].resp = response]

\* From the arrival of the request to the first await: the checks, the
\* lookup of the size limit, open(dest, 'wb').
UploadBegin(u) ==
    LET up == uploads[u]
        checks == UploadChecks(up.r, up.r.at)
        dest == UploadDest(up.r)
    IN  /\ up.pc = "arrived"
        /\ IF checks.status # 200
           THEN Finished(u, checks) /\ UNCHANGED <<files, content>>
           ELSE IF ~HasUploadMax \/ ~IsDir(Parent(dest)) \/ IsDir(dest)
           THEN Finished(u, Response(500, "File upload failed"))
                /\ UNCHANGED <<files, content>>
           ELSE /\ uploads' = [uploads EXCEPT ![u].pc = "open", ![u].dest = dest,
                                              ![u].ino = IF dest \in DOMAIN content
                                                         THEN content[dest].ino ELSE u]
                /\ files' = (dest :> 0) @@ files
                /\ content' = (dest :> [ino |-> IF dest \in DOMAIN content
                                                THEN content[dest].ino ELSE u,
                                        chunks |-> <<>>]) @@ content
        /\ UNCHANGED <<links, dirs, user_path, joined, now, issued, req, resp, gen, settings>>

\* From one await to the next: the chunk read, the size check (on excess:
\* close, os.remove(dest), 413), the write; an empty chunk ends the loop and
\* the handler returns the path relative to settings.ROOT_DIRECTORY.
UploadStep(u) ==
    LET up == uploads[u]
        n == Min(UploadChunk, up.body - up.pos)
        written == up.written + n
        mine == up.dest \in DOMAIN content /\ content[up.dest].ino = up.ino
        chunks == PutChunk(content[up.dest].chunks, up.nchunks + 1, [by |-> u, len |-> n])
    IN  /\ up.pc = "open"
        /\ IF n = 0
           THEN /\ Finished(u, IF RelativeTo(up.dest, ROOT_DIRECTORY)
                               THEN [status |-> 200, detail |-> "uploaded",
                                     headers |-> [path |-> up.dest, size |-> up.written]]
                               ELSE Response(500, "File upload failed"))
                /\ UNCHANGED <<files, content>>
           ELSE IF written > settings.UPLOAD_MAX_BYTES
           THEN IF up.dest \in DOMAIN files
                THEN /\ uploads' = [uploads EXCEPT ![u].pc = "done", ![u].written = written,
                                                   ![u].resp = Response(413, "File too large")]
                     /\ files' = Remove(files, up.dest)
                     /\ content' = Remove(content, up.dest)
                ELSE /\ uploads' = [uploads EXCEPT ![u].pc = "done", ![u].written = written,
                                        ![u].resp = Response(500, "File upload failed")]
                     /\ UNCHANGED <<files, content>>
           ELSE /\ uploads' = [uploads EXCEPT ![u].written = written, ![u].pos = @ + n,
                                              ![u].nchunks = @ + 1]
                /\ IF mine
                   THEN /\ content' = [content EXCEPT ![up.dest].chunks = chunks]
                        /\ files' = [files EXCEPT ![up.dest] = Size(chunks)]
                   ELSE UNCHANGED <<files, content>>
        /\ UNCHANGED <<links, dirs, user_path, joined, now, issued, req, resp, gen, settings>>

\* file.read or out_f.write raises (the disk is full, the spooled body cannot
\* be read): the with block closes the file, the handler answers 500.
UploadFault(u) ==
    /\ uploads[u].pc = "open"
    /\ Finished(u, Response(500, "File upload failed"))
    /\ UNCHANGED <<links, dirs, files, user_path, joined, now, issued, req, resp, gen,
                   settings, content>>

(***************************************************************************)
(* Specification of uploads: two upload requests arrive at a filesystem    *)
(* that holds the file f, the second for the directory of the first.  The  *)
(* settings are those of config.py, which defines no UPLOAD_MAX_BYTES, or  *)
(* those with the maximum the specification speaks of configured.          *)
(***************************************************************************)
UploadMax == UploadChunk + 1
BodySizes == {0, UploadMax, UploadMax + 1}

UploadLinks ==
    { {},
      { [at |-> InRoot(Seg("s")), abs |-> TRUE,  to |-> << Seg("r") >>] },
      { [at |-> InRoot(Seg("s")), abs |-> FALSE, to |-> << Seg("f") >>] },
      { [at |-> ROOT_DIRECTORY,   abs |-> TRUE,  to |-> << Seg("d") >>],
        [at |-> << Seg("d"), Seg("s") >>, abs |-> TRUE, to |-> ROOT_DIRECTORY] } }

UploadPaths == { <<>>, <<"s">>, <<"x">> }
UploadNames == { <<"n">>, <<"f">>, <<"s">>, <<>>, DotDot, <<"a", "/", "n">> }

Arrived(path, name, auth, body) ==
    [r |-> [op |-> "upload", at |-> 0, path |-> path, auth |-> auth, token |-> None,
            access_token |-> None, range |-> NoRange, name |-> name],
     body |-> body, pc |-> "arrived", dest |-> <<>>, ino |-> 0,
     written |-> 0, pos |-> 0, nchunks |-> 0, resp |-> NoResponse]

UploadInit ==
    /\ links \in UploadLinks
    /\ dirs = {PathResolve(links, ROOT_DIRECTORY)}
    /\ files = (Append(PathResolve(links, ROOT_DIRECTORY), Seg("f")) :> 3)
    /\ content = (Append(PathResolve(links, ROOT_DIRECTORY), Seg("f"))
                    :> [ino |-> 0, chunks |-> << [by |-> 0, len |-> 3] >>])
    /\ settings \in {Settings, [UPLOAD_MAX_BYTES |-> UploadMax] @@ Settings}
    /\ \E path \in UploadPaths, name \in UploadNames, other \in UploadNames,
          auth \in {SessionAtZero, None}, body1 \in BodySizes, body2 \in BodySizes :
          /\ other \in {name, <<"n">>}
          /\ uploads = (1 :> Arrived(path, name, SessionAtZero, body1))
                       @@ (2 :> Arrived(path, other, auth, body2))
    /\ user_path = <<>>
    /\ joined = Idle
    /\ now = 0
    /\ issued = {SessionAtZero}
    /\ req = NoRequest
    /\ resp = NoResponse
    /\ gen = NoGen

UploadNext == \E u \in Uploaders : UploadBegin(u) \/ UploadStep(u) \/ UploadFault(u)

UploadSpec == UploadInit /\ [][UploadNext]_vars

(***************************************************************************)
(* What an upload has done.                                                *)
(***************************************************************************)
\* The file at the upload's destination is the one this upload created.
OwnFile(u) ==
    /\ uploads[u].dest \in DOMAIN content
    /\ content[uploads[u].dest].ino = u

\* The upload passed the checks of the request and has a directory to write to.
Admitted(u) ==
    /\ uploads[u].pc = "done"
    /\ uploads[u].resp.status \notin {400, 401, 403, 409}
    /\ IsDir(Parent(UploadDest(uploads[u].r)))

(***************************************************************************)
(* C11: an upload whose body is larger than the configured maximum (one    *)
(* byte over is enough) is answered 413 and leaves no file of its own at   *)
(* the destination, and the file it writes never holds more than the       *)
(* maximum.  The code reads a setting that config.py does not define, and  *)
(* answers 500.                                                            *)
(***************************************************************************)
C11_OversizeAnswered413 ==
    \A u \in Uploaders :
        /\ (Admitted(u) /\ uploads[u].body > UploadMax) =>
              (uploads[u].resp.status = 413 /\ ~OwnFile(u))
        /\ (uploads[u].pc # "arrived" /\ OwnFile(u)) =>
              files[uploads[u].dest] <= UploadMax

(***************************************************************************)
(* C12: an upload that ends in an error after it opened its destination    *)
(* (size exceeded, failure while reading the body or writing a chunk) has  *)
(* removed the file it wrote before it answers: no failed upload leaves a  *)
(* file.  The code removes the file on 413 only.                           *)
(***************************************************************************)
Opened(u) == uploads[u].dest # <<>>
Failed(u) == uploads[u].pc = "done" /\ uploads[u].resp.status # 200

MaxNameLen == 3

FolderLinks ==
    { {},
      { [at |-> InRoot(Seg("s")), abs |-> TRUE,  to |-> << Seg("r") >>] },
      { [at |-> InRoot(Seg("s")), abs |-> FALSE, to |-> << Seg("f") >>] },
      { [at |-> InRoot(Seg("s")), abs |-> FALSE, to |-> << Seg("f"), Seg("e") >>] },
      { [at |-> ROOT_DIRECTORY,   abs |-> TRUE,  to |-> << Seg("d") >>],
        [at |-> << Seg("d"), Seg("s") >>, abs |-> TRUE, to |-> ROOT_DIRECTORY] } }

FolderParents == { <<>>, <<"f">>, <<"/", "f", "/">>, <<"s">>, <<"x">>, DotDot, <<"f", "/", "f">> }
FolderNames == Strings(PathChars, MaxNameLen)

\* The directories and files there before the request.
FolderDirs(fs) == {PathResolve(fs, ROOT_DIRECTORY), Append(PathResolve(fs, ROOT_DIRECTORY), Seg("f"))}
FolderFiles(fs) == (PathResolve(fs, ROOT_DIRECTORY) \o << Seg("f"), Seg("f") >>) :> 1

FolderInit ==
    /\ links \in FolderLinks
    /\ dirs = FolderDirs(links)
    /\ files = FolderFiles(links)
    /\ \E parent \in FolderParents, name \in FolderNames :
          req = [op |-> "create_folder", at |-> 0, path |-> parent, auth |-> SessionAtZero,
                 token |-> None, access_token |-> None, range |-> NoRange, name |-> name]
    /\ resp = NoResponse
    /\ user_path = <<>>
    /\ joined = Idle
    /\ now = 0
    /\ issued = {SessionAtZero}
    /\ gen = NoGen
    /\ settings = Settings
    /\ content = NoContent
    /\ uploads = NoUploads

\* The handler answers the request that arrived.
CreateFolderAnswer ==
    /\ req.op = "create_folder"
    /\ resp = NoResponse
    /\ resp' = Handle(req, req.at).resp
    /\ dirs' = Handle(req, req.at).dirs
    /\ files' = Handle(req, req.at).files
    /\ UNCHANGED <<links, user_path, joined, now, issued, req, gen, settings, content, uploads>>

FolderNext == CreateFolderAnswer

FolderSpec == FolderInit /\ [][FolderNext]_vars

(***************************************************************************)
(* C13: create-folder answers 400 to a name that is empty, ".", ".." or    *)
(* holds "/" or "\", and 409 to a valid name whose target exists, both     *)
(* without touching the filesystem; otherwise it creates exactly one       *)
(* directory, the child `name` of the confined parent, inside the root.    *)
(* The code creates the resolved form of that child, which for a name that *)
(* is a symbolic link to a missing directory lies elsewhere.               *)
(***************************************************************************)
InvalidName(name) ==
    name = <<>> \/ name \in {Dot, DotDot} \/ Contains(name, "/") \/ Contains(name, "\\")

FolderAnswered == req.op = "create_folder" /\ resp.status # 0
NoMutation == dirs = FolderDirs(links) /\ files = FolderFiles(links)

ConfinedParent == SafePathJoin(links, ROOT_DIRECTORY, Strip(req.path))
Child == Append(ConfinedParent.path, req.name)

\* Valid name, confined parent that is a directory, confined target.
Creatable ==
    /\ ~InvalidName(req.name)
    /\ ConfinedParent.status = 200
    /\ ConfinedParent.path \in FolderDirs(links)
    /\ IsWithinRoot(PathResolve(links, Child))

TargetExists ==
    PathResolve(links, Child) \in FolderDirs(links) \cup DOMAIN FolderFiles(links)

Destined(r) ==
    /\ VerifyJwtToken(r, r.at).status = 200
    /\ SafePathJoin(links, ROOT_DIRECTORY, Strip(r.path)).status = 200
    /\ Basename(r.name) \notin {<<>>, Dot, DotDot}
    /\ IsWithinRoot(UploadDest(r))

Begins(u) == uploads[u].pc = "arrived" /\ uploads'[u].pc # "arrived"

C14_NoOverwrite ==
    [][ /\ \A u \in Uploaders :
              /\ (Begins(u) /\ Destined(uploads[u].r) /\ Exists(UploadDest(uploads[u].r))) =>
                    /\ uploads'[u].resp.status = 409
                    /\ files' = files
                    /\ content' = content
              /\ (Begins(u) /\ uploads'[u].pc = "open") =>
                    /\ ~Exists(uploads'[u].dest)
                    /\ uploads'[u].dest = UploadDest(uploads[u].r)
                    /\ IsWithinRoot(uploads'[u].dest)
        /\ \A p \in DOMAIN content :
              content[p].ino = 0 => (p \in DOMAIN content' /\ content'[p] = content[p]
                                     /\ files'[p] = files[p])
      ]_vars

\* The upload of a file named f, which is there, answered 409.
C14_Witness ==
    /\ uploads # NoUploads
    /\ uploads[1].r.name = <<"f">>
    /\ uploads[1].r.path = <<>>
    /\ uploads[1].resp.status = 409
    /\ settings = Settings
    /\ files = (Append(PathResolve(links, ROOT_DIRECTORY), Seg("f")) :> 3)

(***************************************************************************)
(* Specification of the order of the checks: one request for any protected *)
(* operation, for a path that is there, is missing or leaves the root,     *)
(* with a session token and a stream token issued at 0 or with forged or   *)
(* malformed ones, at an instant before or after their expiry.             *)
(***************************************************************************)
StreamAtZero == CreateAccessToken(FALSE, TRUE, <<"f">>, StreamTokenSeconds, 0)

OrderLinks ==
    { {}, { [at |-> InRoot(Seg("s")), abs |-> TRUE, to |-> << Seg("r") >>] } }
OrderPaths == { <<>>, <<"f">>, <<"s">>, <<"x">>, DotDot }
OrderNames == { <<"n">>, <<"f">>, DotDot }
OrderInstants == {0, StreamTokenSeconds, SessionTtl}
OrderTokens == {None, SessionAtZero, StreamAtZero, Forged, Malformed}

OrderDirs == {ROOT_DIRECTORY}
OrderFiles == FileF :> 3

OrderInit ==
    /\ links \in OrderLinks
    /\ dirs = OrderDirs
    /\ files = OrderFiles
    /\ now \in OrderInstants
    /\ issued = {SessionAtZero, StreamAtZero}
    /\ \E op \in Ops, path \in OrderPaths, name \in OrderNames,
          auth \in OrderTokens, token \in OrderTokens, access_token \in OrderTokens :
          /\ None \in {auth, token, access_token}
          /\ req = [op |-> op, at |-> now, path |-> path, auth |-> auth, token |-> token,
                    access_token |-> access_token, range |-> NoRange, name |-> name]
    /\ resp = NoResponse
    /\ user_path = <<>>
    /\ joined = Idle
    /\ gen = NoGen
    /\ settings = Settings
    /\ content = NoContent
    /\ uploads = NoUploads

\* The handler answers the request that arrived.
Answer ==
    /\ req.op \in Ops
    /\ resp = NoResponse
    /\ resp' = Handle(req, req.at).resp
    /\ dirs' = Handle(req, req.at).dirs
    /\ files' = Handle(req, req.at).files
    /\ issued' = Handle(req, req.at).issued
    /\ UNCHANGED <<links, user_path, joined, now, req, gen, settings, content, uploads>>

OrderNext == Answer

OrderSpec == OrderInit /\ [][OrderNext]_vars

(***************************************************************************)
(* C15: on every protected operation the token is verified before the path *)
(* is confined and before the filesystem is touched: a request none of     *)
(* whose tokens is valid (missing, forged, malformed, expired) is answered *)
(* 401 by the token check, whatever its path (also one that leaves the     *)
(* root or is not there), nothing is created and no token is issued.       *)
(***************************************************************************)
C15_TokenBeforePath ==
    (Answered /\ \A tok \in Credentials(req) : ~(tok \in {SessionAtZero, StreamAtZero}
                                                  /\ req.at < tok.exp)) =>
        /\ resp \in {Response(401, "Missing authentication token"),
                     Response(401, "Invalid or expired token")}
        /\ dirs = OrderDirs
        /\ files = OrderFiles
        /\ issued = {SessionAtZero, StreamAtZero}

\* A download of ../ with a session token that has just expired.
C15_Witness ==
    /\ req.op = "download"
    /\ req.path = DotDot
    /\ Credentials(req) = {SessionAtZero}
    /\ req.at = SessionTtl
    /\ resp.status = 401

(***************************************************************************)
(* C16: the generator reads no chunk larger than the bytes that remain or  *)
(* than 64 KiB (audio) / 256 KiB (video), never emits more than            *)
(* end-start+1 bytes, and ends having emitted min(end-start+1, the bytes   *)
(* of the file from start on).  For a range whose end lies before its      *)
(* start (see C7) end-start+1 is negative, and the generator emits 0.      *)
(***************************************************************************)
Wanted == RangeEnd - RangeStart + 1
Available == Max(0, StreamedSize - RangeStart)

C16_GeneratorBounded ==
    (gen # NoGen /\ gen.state \in {"reading", "done"}) =>
        /\ \A i \in 1..Len(gen.chunks) :
              /\ gen.chunks[i].len <= ChunkSize(req.op)
              /\ gen.chunks[i].len <= Wanted - Size(SubSeq(gen.chunks, 1, i - 1))
        /\ gen.chunk_size <= ChunkSize(req.op)
        /\ Size(gen.chunks) <= Wanted
        /\ gen.remaining = Wanted - Size(gen.chunks)
        /\ gen.state = "done" => Size(gen.chunks) = Min(Wanted, Available)

(***************************************************************************)
(* C17: however two uploads interleave, the removal on 413 takes away only *)
(* the file of the upload that exceeded the limit: an upload that is       *)
(* writing finds at its destination the file it created, holding what it   *)
(* wrote so far; one that answered `uploaded` with size n has left there   *)
(* its file of exactly its n bytes; and the file that was there before     *)
(* stays as it was.                                                        *)
(***************************************************************************)
WrittenBy(u, chunks) == \A i \in 1..Len(chunks) : chunks[i].by = u

Intact(u, n) ==
    /\ OwnFile(u)
    /\ WrittenBy(u, content[uploads[u].dest].chunks)
    /\ Size(content[uploads[u].dest].chunks) = n
    /\ files[uploads[u].dest] = n

Uploaded(u) == uploads[u].pc = "done" /\ uploads[u].resp.status = 200

====
